---- MODULE Spec2Model ----
(***************************************************************************)
(* Model of src/plugin.py: the /jm command of the JM download plugin.      *)
(*                                                                         *)
(* One invocation of JMCommand.execute is a process i; its local variables *)
(* are the fields of proc[i].  The file system (download root, tmp_pdf,    *)
(* option.yml) is shared.  The remote library (jmcomic), the imaging       *)
(* library and the Napcat HTTP backend are the environment: each call to   *)
(* them is a nondeterministic choice among the outcomes they can produce.  *)
(* Strings are sequences of one-character strings.                         *)
(*                                                                         *)
(* Specifications:                                                         *)
(*   Spec            one invocation of the command, run in isolation       *)
(*   SpecConc        two invocations interleaved on one event loop         *)
(*   SpecDownloader  async_download_album called directly                  *)
(*   SpecSanitize    sanitize_filename called directly                     *)
(*   SpecPages       image collection and images_to_pdf_sync on a listing  *)
(***************************************************************************)
EXTENDS Integers, Sequences, FiniteSets, TLC

VARIABLES
    proc,         \* proc[i]: locals of invocation i of JMCommand.execute
    dirs,         \* immediate subdirectories of the download root
    pdfs,         \* files of <plugin>/tmp_pdf
    option_file,  \* content of <download root>/option.yml
    jmcomic_ok,   \* whether `import jmcomic` succeeds in this installation
    clock,        \* file-system time, stamps directory modification times
    call          \* a direct call of one function: its arguments and results

vars == <<proc, dirs, pdfs, option_file, jmcomic_ok, clock, call>>

----------------------------------------------------------------------------
(* Bounds of the model *)

NumProcs == 2
MaxChapters == 3
MaxChapterArg == 4
max_pdf_pages == 2
MaxNameLen == 3
MaxListing == 3

Procs == 1..NumProcs
MaxImages == max_pdf_pages + 1

----------------------------------------------------------------------------
(* Optional values: None is the empty tuple, Some(x) a one-element tuple *)

None == <<>>
Some(x) == <<x>>

----------------------------------------------------------------------------
(* str.strip, str.split, int(str) *)

IsSpace(c) == c \in {" ", "\t", "\n", "\r"}

RECURSIVE LStrip(_)
LStrip(s) == IF s # <<>> /\ IsSpace(s[1]) THEN LStrip(Tail(s)) ELSE s

RECURSIVE RStrip(_)
RStrip(s) ==
    IF s # <<>> /\ IsSpace(s[Len(s)]) THEN RStrip(SubSeq(s, 1, Len(s) - 1)) ELSE s

strip(s) == RStrip(LStrip(s))

\* length of the leading run of non-space characters of s
RECURSIVE TokenLen(_)
TokenLen(s) == IF s = <<>> \/ IsSpace(s[1]) THEN 0 ELSE 1 + TokenLen(Tail(s))

RECURSIVE split(_)
split(s) ==
    LET t == LStrip(s)
        n == TokenLen(t)
    IN  IF t = <<>> THEN <<>>
        ELSE <<SubSeq(t, 1, n)>> \o split(SubSeq(t, n + 1, Len(t)))

DigitChars == <<"0", "1", "2", "3", "4", "5", "6", "7", "8", "9">>

IsDigit(c) == \E k \in 1..Len(DigitChars) : DigitChars[k] = c

DigitVal(c) == (CHOOSE k \in 1..Len(DigitChars) : DigitChars[k] = c) - 1

RECURSIVE DigitsToInt(_)
DigitsToInt(s) ==
    IF s = <<>> THEN 0
    ELSE 10 * DigitsToInt(SubSeq(s, 1, Len(s) - 1)) + DigitVal(s[Len(s)])

\* int(tok): an optional sign followed by one or more digits, else ValueError
py_int(tok) ==
    LET signed == tok # <<>> /\ tok[1] \in {"+", "-"}
        digits == IF signed THEN Tail(tok) ELSE tok
        wellformed == digits # <<>> /\ \A k \in 1..Len(digits) : IsDigit(digits[k])
    IN  IF ~wellformed THEN [ok |-> FALSE, val |-> 0]
        ELSE [ok |-> TRUE,
              val |-> IF tok[1] = "-" THEN 0 - DigitsToInt(digits)
                      ELSE DigitsToInt(digits)]

RECURSIVE IntToDigits(_)
IntToDigits(n) ==
    IF n < 10 THEN <<DigitChars[n + 1]>>
    ELSE IntToDigits(n \div 10) \o <<DigitChars[(n % 10) + 1]>>

\* f"{n:02d}" for n >= 0
Format02d(n) == IF n < 10 THEN <<"0">> \o IntToDigits(n) ELSE IntToDigits(n)

----------------------------------------------------------------------------
(* sanitize_filename *)

IllegalChars == {"\\", "/", ":", "*", "?", "\"", "<", ">", "|", "\r", "\n"}

\* re.sub(r'[\\/:*?"<>|\r\n]+', '_', name): each maximal run becomes one "_"
RECURSIVE ReplaceRuns(_)
ReplaceRuns(s) ==
    IF s = <<>> THEN <<>>
    ELSE IF s[1] \in IllegalChars
         THEN IF Len(s) > 1 /\ s[2] \in IllegalChars
              THEN ReplaceRuns(Tail(s))
              ELSE <<"_">> \o ReplaceRuns(Tail(s))
         ELSE <<s[1]>> \o ReplaceRuns(Tail(s))

\* mutant: the result is not stripped
sanitize_filename_NoStrip(name) == ReplaceRuns(name)

sanitize_filename(name) == strip(ReplaceRuns(name))

----------------------------------------------------------------------------
(* Inputs of an invocation *)

Space == <<" ">>

AlbumTokens == {<<"7">>}

\* an album id holding characters that are illegal in a file name
UnsafeAlbumToken == <<"7", ":", "*", "b">>

ChapterTokens ==
    {<<DigitChars[n + 1]>> : n \in 0..MaxChapterArg}
        \cup {<<"-", "1">>, <<"+", "2">>, <<"x">>, <<"1", "x">>}

\* the `args` group of command_pattern: None when the command is a bare /jm
ArgStrings ==
    {<<>>, Space}
        \cup AlbumTokens
        \cup {a \o Space : a \in AlbumTokens}
        \cup {a \o Space \o c : a \in AlbumTokens, c \in ChapterTokens}
        \cup {Space \o a \o Space \o Space \o c \o Space \o a :
                a \in AlbumTokens, c \in {<<"2">>, <<"x">>}}
        \cup {UnsafeAlbumToken, UnsafeAlbumToken \o Space \o <<"2">>}

MatchedArgs == {None} \cup {Some(s) : s \in ArgStrings}

\* message_info.group_info.group_id and message_info.user_info.user_id
MessageInfo(g, u) == [group_id |-> g, user_id |-> u]

MessageInfos ==
    {MessageInfo(Some(<<"5">>), Some(<<"9">>)),
     MessageInfo(Some(<<"g">>), None),
     MessageInfo(None, Some(<<"9">>)),
     MessageInfo(None, Some(<<"0">>)),
     MessageInfo(None, None)}

----------------------------------------------------------------------------
(* The process record: locals of one execute() call, its messages and the  *)
(* external operations it performed                                        *)

Msg(text, args) == [text |-> text, args |-> args]

NoMsg == [kind |-> "none", status |-> 0, body |-> "none"]

IdleProc ==
    [pc |-> "Idle",
     matched_args |-> None,
     album_id |-> <<>>,
     chapter_num |-> None,
     chapter_count |-> None,
     only_first_chapter |-> FALSE,
     use_chapter_index |-> None,
     download_chapter_index |-> None,
     photo_id_to_download |-> None,
     total_chapters |-> None,
     album_dir |-> None,
     n_images |-> 0,
     safe_name |-> <<>>,
     pdf_path |-> <<>>,
     option |-> None,
     message_info |-> MessageInfo(None, None),
     is_group |-> FALSE,
     group_id |-> None,
     user_id |-> None,
     posts |-> <<>>,
     ok |-> FALSE,
     msg |-> NoMsg,
     ret |-> None,
     sent |-> <<>>,
     trace |-> <<>>]

Send(p, text, args) == [p EXCEPT !.sent = Append(@, Msg(text, args))]

Did(p, op) == [p EXCEPT !.trace = Append(@, op)]

\* lines 487-494: the arguments execute passes to upload_pdf_via_napcat
UploadArgs(p) ==
    [pdf_path |-> p.pdf_path,
     filename |-> p.safe_name \o <<".", "p", "d", "f">>,
     scope |-> IF p.is_group THEN "group" ELSE "private",
     target_id |-> IF p.is_group THEN p.group_id ELSE p.user_id]

\* one HTTP POST of the Upload Client, what it carried and how it ended
Post(kind, args, raised, r) ==
    [kind |-> kind, args |-> args, raised |-> raised,
     status |-> IF raised THEN 0 ELSE r.status,
     body |-> IF raised THEN "none" ELSE r.body]

Posted(p, kind, raised, r) ==
    [p EXCEPT !.posts = Append(@, Post(kind, UploadArgs(p), raised, r))]

\* mutant: the `return` after a failure message is missing
Report_NoReturn(p, ret) == [p EXCEPT !.ret = ret]

\* `return True, <ret>, True` after a message was sent
Report(p, ret) == [p EXCEPT !.pc = "Reported", !.ret = ret]

\* an exception leaves execute()
Raise(p, what) == [p EXCEPT !.pc = "Raised", !.ret = Some(what)]

Terminal == {"Reported", "Done", "Raised"}

----------------------------------------------------------------------------
(* Initial state: no invocation started; the download root is empty or     *)
(* holds one directory left by an earlier download                         *)

DirNames == {"dirA", "dirB"}

\* no function is called directly while the command runs
NoCall == [fn |-> "none"]

\* a subdirectory of the download root: `work` is the Work whose download
\* created it, `by` the invocations whose download wrote into it
NoDir ==
    [present |-> FALSE, mtime |-> 0, lower |-> 0, upper |-> 0,
     work |-> <<>>, by |-> {}]

\* left by a download of another Work before the first invocation started
OldDir ==
    [present |-> TRUE, mtime |-> 1, lower |-> 1, upper |-> 0,
     work |-> <<"3">>, by |-> {}]

\* the download root every invocation is configured with (jm.jm_data_dir)
OutputDir == "root"

AbsentFile == [text |-> <<>>, writer |-> 0]

\* mutant: option.yml is written only when it does not exist yet
WriteOption_KeepExisting(file, output_dir, i) ==
    IF file # AbsentFile THEN file
    ELSE [text |-> <<"dir_rule", "base_dir", output_dir>>, writer |-> i]

\* open(option_file, "w") and write(f"dir_rule:\n  base_dir: {output_dir}\n"):
\* the file is replaced by the text this invocation writes
WriteOption(file, output_dir, i) ==
    [text |-> <<"dir_rule", "base_dir", output_dir>>, writer |-> i]

Init ==
    /\ proc = [i \in Procs |-> IdleProc]
    /\ dirs \in {[d \in DirNames |-> NoDir],
                 [d \in DirNames |-> IF d = "dirA" THEN OldDir ELSE NoDir]}
    /\ pdfs = {}
    /\ option_file = AbsentFile
    /\ jmcomic_ok \in BOOLEAN
    /\ clock = 1
    /\ call = NoCall

----------------------------------------------------------------------------
(* ParseArgs: execute, lines 368-391 *)

\* mutant: `chapter_num < 0` instead of `chapter_num <= 0`
ParseArgs_AllowZero(matched) ==
    LET args_str == strip(IF matched = None THEN <<>> ELSE matched[1])
        parts == split(args_str)
        parsed == py_int(parts[2])
    IN  IF args_str = <<>>
        THEN [ok |-> FALSE, text |-> "usage", album_id |-> <<>>, chapter_num |-> None]
        ELSE IF Len(parts) > 1
        THEN IF parsed.ok /\ parsed.val >= 0
             THEN [ok |-> TRUE, text |-> "start", album_id |-> parts[1],
                   chapter_num |-> Some(parsed.val)]
             ELSE [ok |-> FALSE, text |-> "chapter_must_be_positive",
                   album_id |-> parts[1], chapter_num |-> None]
        ELSE [ok |-> TRUE, text |-> "start", album_id |-> parts[1],
              chapter_num |-> None]

ParseArgs(matched) ==
    LET args_str == strip(IF matched = None THEN <<>> ELSE matched[1])
        parts == split(args_str)
        parsed == py_int(parts[2])
    IN  IF args_str = <<>>
        THEN [ok |-> FALSE, text |-> "usage", album_id |-> <<>>, chapter_num |-> None]
        ELSE IF Len(parts) > 1
        THEN IF parsed.ok /\ parsed.val > 0
             THEN [ok |-> TRUE, text |-> "start", album_id |-> parts[1],
                   chapter_num |-> Some(parsed.val)]
             ELSE [ok |-> FALSE, text |-> "chapter_must_be_positive",
                   album_id |-> parts[1], chapter_num |-> None]
        ELSE [ok |-> TRUE, text |-> "start", album_id |-> parts[1],
              chapter_num |-> None]

Invoke(i) ==
    /\ proc[i].pc = "Idle"
    /\ \E matched \in MatchedArgs :
        LET r == ParseArgs(matched)
            p0 == [proc[i] EXCEPT !.matched_args = matched,
                                  !.album_id = r.album_id,
                                  !.chapter_num = r.chapter_num]
            p1 == Send(p0, r.text, <<>>)
        IN  proc' = [proc EXCEPT ![i] =
                        IF r.ok THEN [p1 EXCEPT !.pc = "CheckChapters"]
                        ELSE Report(p1, None)]
    /\ UNCHANGED <<dirs, pdfs, option_file, jmcomic_ok, clock, call>>

----------------------------------------------------------------------------
(* Chapter Inspector: check_album_chapters, lines 192-219, and its caller, *)
(* execute lines 398-405                                                   *)

CheckFailed(p, why) ==
    Report(Send(p, "check_failed", <<>>), Some(why))

\* lines 192-208: import, create the directory, write option.yml, build the
\* option from the file (no await between the write and the read)
InspectorPrepare(i) ==
    /\ proc[i].pc = "CheckChapters"
    /\ IF ~jmcomic_ok
       THEN /\ proc' = [proc EXCEPT ![i] = CheckFailed(@, "import_failed")]
            /\ UNCHANGED option_file
       ELSE \E outcome \in {"ok", "os_error", "option_error"} :
            CASE outcome = "os_error" ->
                    /\ proc' = [proc EXCEPT ![i] = CheckFailed(@, "lookup_failed")]
                    /\ UNCHANGED option_file
              [] outcome = "option_error" ->
                    /\ proc' = [proc EXCEPT ![i] = CheckFailed(@, "lookup_failed")]
                    /\ option_file' = WriteOption(option_file, OutputDir, i)
              [] outcome = "ok" ->
                    /\ option_file' = WriteOption(option_file, OutputDir, i)
                    /\ proc' = [proc EXCEPT ![i].pc = "InspectorFetch",
                                            ![i].option = Some(option_file')]
    /\ UNCHANGED <<dirs, pdfs, jmcomic_ok, clock, call>>

\* lines 211-219: get_album_detail in a worker thread; len(album) or an exception
InspectorFetch(i) ==
    /\ proc[i].pc = "InspectorFetch"
    /\ \E raised \in BOOLEAN, n \in 0..MaxChapters :
        LET p0 == Did(proc[i], "inspect")
        IN  proc' = [proc EXCEPT ![i] =
                IF raised
                THEN CheckFailed(p0, "lookup_failed")
                ELSE [p0 EXCEPT !.chapter_count = Some(n), !.pc = "SelectStrategy"]]
    /\ UNCHANGED <<dirs, pdfs, option_file, jmcomic_ok, clock, call>>

----------------------------------------------------------------------------
(* SelectStrategy: execute, lines 408-424 *)

\* mutant: `chapter_num >= chapter_count` instead of `chapter_num > chapter_count`
SelectStrategy_OffByOne(chapter_count, chapter_num) ==
    IF chapter_count > 1
    THEN IF chapter_num # None
         THEN IF chapter_num[1] >= chapter_count
              THEN [only_first_chapter |-> TRUE, use_chapter_index |-> None,
                    notice |-> Some("out_of_range")]
              ELSE [only_first_chapter |-> FALSE, use_chapter_index |-> chapter_num,
                    notice |-> Some("multi_download_chapter")]
         ELSE [only_first_chapter |-> TRUE, use_chapter_index |-> None,
               notice |-> Some("multi_first_only")]
    ELSE [only_first_chapter |-> FALSE, use_chapter_index |-> None,
          notice |-> IF chapter_num # None THEN Some("single_ignore_arg") ELSE None]

SelectStrategy(chapter_count, chapter_num) ==
    IF chapter_count > 1
    THEN IF chapter_num # None
         THEN IF chapter_num[1] > chapter_count
              THEN [only_first_chapter |-> TRUE, use_chapter_index |-> None,
                    notice |-> Some("out_of_range")]
              ELSE [only_first_chapter |-> FALSE, use_chapter_index |-> chapter_num,
                    notice |-> Some("multi_download_chapter")]
         ELSE [only_first_chapter |-> TRUE, use_chapter_index |-> None,
               notice |-> Some("multi_first_only")]
    ELSE [only_first_chapter |-> FALSE, use_chapter_index |-> None,
          notice |-> IF chapter_num # None THEN Some("single_ignore_arg") ELSE None]

Select(i) ==
    /\ proc[i].pc = "SelectStrategy"
    /\ LET s == SelectStrategy(proc[i].chapter_count[1], proc[i].chapter_num)
           p0 == [proc[i] EXCEPT !.only_first_chapter = s.only_first_chapter,
                                 !.use_chapter_index = s.use_chapter_index,
                                 !.pc = "Download"]
       IN  proc' = [proc EXCEPT ![i] =
                IF s.notice = None THEN p0
                ELSE Send(p0, s.notice[1], <<proc[i].chapter_count[1]>>)]
    /\ UNCHANGED <<dirs, pdfs, option_file, jmcomic_ok, clock, call>>

----------------------------------------------------------------------------
(* Album Downloader: async_download_album, lines 246-334, and its caller,  *)
(* execute lines 426-439                                                   *)

DownloadFailed(p, why) ==
    Report(Send(p, "download_failed", <<>>), Some(why))

\* lines 246-268: import, create the directory, write option.yml (neither is
\* inside a try block), build the option
DownloadPrepare(i) ==
    /\ proc[i].pc = "Download"
    /\ IF ~jmcomic_ok
       THEN /\ proc' = [proc EXCEPT ![i] = DownloadFailed(@, "import_failed")]
            /\ UNCHANGED option_file
       ELSE \E outcome \in {"ok", "os_error", "option_error"} :
            CASE outcome = "os_error" ->
                    /\ proc' = [proc EXCEPT ![i] = Raise(@, "OSError")]
                    /\ UNCHANGED option_file
              [] outcome = "option_error" ->
                    /\ proc' = [proc EXCEPT ![i] = DownloadFailed(@, "option_error")]
                    /\ option_file' = WriteOption(option_file, OutputDir, i)
              [] outcome = "ok" ->
                    /\ option_file' = WriteOption(option_file, OutputDir, i)
                    /\ proc' = [proc EXCEPT
                            ![i].option = Some(option_file'),
                            ![i].pc =
                                IF proc[i].use_chapter_index # None
                                   \/ proc[i].only_first_chapter
                                THEN "DownloadResolve" ELSE "DownloadFetch"]
    /\ UNCHANGED <<dirs, pdfs, jmcomic_ok, clock, call>>

\* the chapter list the remote returns: position k (1-based) holds this sub-ID
PhotoIdAt(k) == 100 + k

\* mutant: `idx > total_chapters` instead of `idx >= total_chapters`
ResolveChapter_OffByOne(chapter_index, only_first_chapter, total_chapters) ==
    IF chapter_index # None
    THEN LET idx == chapter_index[1] - 1
         IN  IF idx < 0 \/ idx > total_chapters
             THEN IF only_first_chapter THEN Some(0) ELSE None
             ELSE Some(idx)
    ELSE Some(0)

\* lines 288-296: the 0-based index to download, or None
ResolveChapter(chapter_index, only_first_chapter, total_chapters) ==
    IF chapter_index # None
    THEN LET idx == chapter_index[1] - 1
         IN  IF idx < 0 \/ idx >= total_chapters
             THEN IF only_first_chapter THEN Some(0) ELSE None
             ELSE Some(idx)
    ELSE Some(0)

\* lines 275-303: second fetch of the chapter list in a worker thread
DownloadResolve(i) ==
    /\ proc[i].pc = "DownloadResolve"
    /\ \E raised \in BOOLEAN, total \in 0..MaxChapters, photo_missing \in BOOLEAN :
        LET p0 == [Did(proc[i], "fetch_list") EXCEPT !.total_chapters =
                        IF raised THEN None ELSE Some(total)]
            dci == ResolveChapter(proc[i].use_chapter_index,
                                  proc[i].only_first_chapter, total)
        IN  proc' = [proc EXCEPT ![i] =
                IF raised THEN DownloadFailed(p0, "lookup_failed")
                ELSE IF total = 0 THEN DownloadFailed(p0, "no_chapters")
                ELSE IF dci # None /\ photo_missing
                THEN DownloadFailed(p0, "no_photo_id")
                ELSE [p0 EXCEPT !.download_chapter_index = dci,
                                !.photo_id_to_download =
                                    IF dci = None THEN None
                                    ELSE Some(PhotoIdAt(dci[1] + 1)),
                                !.pc = "DownloadFetch"]]
    /\ UNCHANGED <<dirs, pdfs, option_file, jmcomic_ok, clock, call>>

\* what a download may leave under the download root: nothing new, or one
\* directory created or extended with image files (lower: files matching the
\* lower-case patterns *.jpg ..., upper: image files with upper-case extension)
Populated(ds, d, l, u, now, work, i) ==
    [ds EXCEPT ![d] = [present |-> TRUE, mtime |-> now, lower |-> l, upper |-> u,
                       work |-> work, by |-> ds[d].by \cup {i}]]

DownloadEffects(ds, now, work, i) ==
    {ds} \cup
    {Populated(ds, d, l, u, now, work, i) :
        d \in DirNames,
        l \in 0..MaxImages,
        u \in 0..1}

\* files are only added, a directory's mtime changes only when it is created
\* or gains an entry, and the library keeps each Work in a directory of its own
DownloadEffectOk(ds, ds2) ==
    \A d \in DirNames :
        \/ ds2[d] = ds[d]
        \/ /\ ~ds[d].present \/ ds[d].work = ds2[d].work
           /\ ds2[d].lower >= ds[d].lower
           /\ ds2[d].upper >= ds[d].upper
           /\ ds2[d].lower + ds2[d].upper <= MaxImages
           /\ \/ ~ds[d].present
              \/ ds2[d].lower + ds2[d].upper > ds[d].lower + ds[d].upper

\* lines 305-311: download_photo or download_album in a worker thread
DownloadFetch(i) ==
    /\ proc[i].pc = "DownloadFetch"
    /\ LET p0 == Did(proc[i],
                     IF proc[i].download_chapter_index # None
                     THEN "download_photo" ELSE "download_album")
       IN  \/ /\ proc' = [proc EXCEPT ![i] = DownloadFailed(p0, "download_raised")]
              /\ UNCHANGED <<dirs, clock>>
           \/ \E ds2 \in DownloadEffects(dirs, clock + 1, proc[i].album_id, i) :
              /\ DownloadEffectOk(dirs, ds2)
              /\ dirs' = ds2
              /\ clock' = clock + 1
              /\ proc' = [proc EXCEPT ![i] = [p0 EXCEPT !.pc = "DownloadLocate"]]
    /\ UNCHANGED <<pdfs, option_file, jmcomic_ok, call>>

\* lines 315-332: the directories the discovery can return (ties in mtime are
\* broken by iteration order, which the file system decides); rglob("*.jpg")
\* is case-sensitive on a POSIX file system, so only `lower` files count here
HasImages(ds, d) == ds[d].present /\ ds[d].lower > 0

\* mutant: the sort by mtime is ascending
Discover_Earliest(ds) ==
    {d \in DirNames :
        /\ HasImages(ds, d)
        /\ \A e \in DirNames : HasImages(ds, e) => ds[e].mtime >= ds[d].mtime}

Discover(ds) ==
    {d \in DirNames :
        /\ HasImages(ds, d)
        /\ \A e \in DirNames : HasImages(ds, e) => ds[e].mtime <= ds[d].mtime}

\* lines 313-334 and execute lines 434-439
DownloadLocate(i) ==
    /\ proc[i].pc = "DownloadLocate"
    /\ IF \A d \in DirNames : ~dirs[d].present
       THEN proc' = [proc EXCEPT ![i] = DownloadFailed(@, "no_download_dir")]
       ELSE IF Discover(dirs) = {}
       THEN proc' = [proc EXCEPT ![i] = DownloadFailed(@, "no_image_dir")]
       ELSE \E d \in Discover(dirs) :
            proc' = [proc EXCEPT ![i] =
                        Send([@ EXCEPT !.album_dir = Some(d), !.pc = "CollectImages"],
                             "album_name", <<>>)]
    /\ UNCHANGED <<dirs, pdfs, option_file, jmcomic_ok, clock, call>>

----------------------------------------------------------------------------
(* CollectImages: execute, lines 441-450 *)

\* rglob("*") filtered by suffix.lower(): both spellings of the extension count
CountImages(ds, d) == ds[d].lower + ds[d].upper

CollectImages(i) ==
    /\ proc[i].pc = "CollectImages"
    /\ LET n == CountImages(dirs, proc[i].album_dir[1])
           p0 == [Did(proc[i], "collect") EXCEPT !.n_images = n]
       IN  proc' = [proc EXCEPT ![i] =
                IF n = 0 THEN Report(Send(p0, "no_images", <<>>), None)
                ELSE [p0 EXCEPT !.pc = "AssemblePdf"]]
    /\ UNCHANGED <<dirs, pdfs, option_file, jmcomic_ok, clock, call>>

----------------------------------------------------------------------------
(* AssemblePdf: execute, lines 452-470, and images_to_pdf_sync, lines 69-91 *)

\* mutant: `>=` instead of `>`
OverPageCap_Inclusive(n_images) == n_images >= max_pdf_pages

OverPageCap(n_images) == n_images > max_pdf_pages

\* mutant: a first-chapter-only selection gets no chapter suffix
SafeName_NoFirstSuffix(album_id, use_chapter_index, only_first_chapter) ==
    LET base == sanitize_filename(album_id)
    IN  IF use_chapter_index # None
        THEN base \o <<"_">> \o Format02d(use_chapter_index[1])
        ELSE base

\* lines 457-461
SafeName(album_id, use_chapter_index, only_first_chapter) ==
    LET base == sanitize_filename(album_id)
    IN  IF use_chapter_index # None
        THEN base \o <<"_">> \o Format02d(use_chapter_index[1])
        ELSE IF only_first_chapter THEN base \o <<"_", "0", "1">>
        ELSE base

\* line 464: os.path.join(pdf_dir, f"{safe_name}.pdf")
PdfPath(safe_name) ==
    <<"t", "m", "p", "_", "p", "d", "f", "/">> \o safe_name \o <<".", "p", "d", "f">>

PdfExists(name) == \E f \in pdfs : f.name = name

\* first_image.save(output_pdf_path, ...): creates or replaces the file
WritePdf(files, name, pages, by) ==
    {f \in files : f.name # name} \cup {[name |-> name, pages |-> pages, by |-> by]}

AssemblePdf(i) ==
    /\ proc[i].pc = "AssemblePdf"
    /\ IF OverPageCap(proc[i].n_images)
       THEN /\ proc' = [proc EXCEPT ![i] =
                    Report(Send(@, "too_many_pages", <<max_pdf_pages>>), None)]
            /\ UNCHANGED pdfs
       ELSE LET name == SafeName(proc[i].album_id, proc[i].use_chapter_index,
                                 proc[i].only_first_chapter)
                p0 == [proc[i] EXCEPT !.safe_name = name, !.pdf_path = PdfPath(name)]
            IN  \E outcome \in {"ok", "os_error", "pdf_error"} :
                CASE outcome = "os_error" ->
                        /\ proc' = [proc EXCEPT ![i] = Raise(p0, "OSError")]
                        /\ UNCHANGED pdfs
                  [] outcome = "pdf_error" ->
                        /\ proc' = [proc EXCEPT ![i] =
                                Report(Send(p0, "pdf_failed", <<>>), Some("pdf_error"))]
                        /\ UNCHANGED pdfs
                  [] outcome = "ok" ->
                        /\ proc' = [proc EXCEPT ![i] =
                                [Did(p0, "pdf_write") EXCEPT !.pc = "ResolveTarget"]]
                        /\ pdfs' = WritePdf(pdfs, PdfPath(name), proc[i].n_images, i)
    /\ UNCHANGED <<dirs, option_file, jmcomic_ok, clock, call>>

----------------------------------------------------------------------------
(* ResolveTarget: execute, lines 472-497 *)

Truthy(id) == id # None /\ id[1] # <<>>

\* int(id) inside try/except: None when int() raises
IntOrNone(id) == IF py_int(id[1]).ok THEN Some(py_int(id[1]).val) ELSE None

\* lines 473-485
ResolveTarget(info) ==
    IF Truthy(info.group_id)
    THEN [is_group |-> TRUE, group_id |-> IntOrNone(info.group_id), user_id |-> None]
    ELSE IF Truthy(info.user_id)
    THEN [is_group |-> FALSE, group_id |-> None, user_id |-> IntOrNone(info.user_id)]
    ELSE [is_group |-> FALSE, group_id |-> None, user_id |-> None]

\* lines 487-497: the scope of the upload call, or "none"
Scope(t) ==
    IF t.is_group THEN "group"
    ELSE IF t.user_id # None /\ t.user_id[1] # 0 THEN "private"
    ELSE "none"

\* line 477 reads self.message.message_info, whatever the message carries
Resolve(i) ==
    /\ proc[i].pc = "ResolveTarget"
    /\ \E info \in MessageInfos :
        LET t == ResolveTarget(info)
            p0 == [Did(proc[i], "resolve_target") EXCEPT !.message_info = info,
                                  !.is_group = t.is_group,
                                  !.group_id = t.group_id,
                                  !.user_id = t.user_id]
        IN  proc' = [proc EXCEPT ![i] =
                 IF Scope(t) = "none"
                 THEN Report(Send(p0, "no_target", <<>>), None)
                 ELSE [p0 EXCEPT !.pc = "UploadJson"]]
    /\ UNCHANGED <<dirs, pdfs, option_file, jmcomic_ok, clock, call>>

----------------------------------------------------------------------------
(* Upload Client: upload_pdf_via_napcat, lines 124-167, and its caller,    *)
(* execute lines 487-501                                                   *)

Statuses == {200, 500}

Bodies == {"json_spaced", "text"}

Responses == [status : Statuses, body : Bodies]

\* json.dumps(json.loads(text), ensure_ascii=False), or text when it does not parse
IsJson(body) == body \in {"json_spaced", "json_canonical"}

\* mutant: the body is returned without re-serialization
ResponseText_Verbatim(body) == body

ResponseText(body) == IF IsJson(body) THEN "json_canonical" ELSE body

Success(r) == [kind |-> "body", status |-> r.status, body |-> ResponseText(r.body)]

\* mutant: the failure message carries the status without the body
HttpError_NoBody(r) == [kind |-> "http_error", status |-> r.status, body |-> "none"]

HttpError(r) == [kind |-> "http_error", status |-> r.status, body |-> r.body]

\* mutant: any completed first response ends the upload
FirstAttempt_ExceptionOnly(raised, r) == IF raised THEN "raised" ELSE "returned"

\* lines 133-143: what the first attempt leaves: "returned" (the function
\* returned success), or the reason control reaches the second attempt
FirstAttempt(raised, r) ==
    IF raised THEN "raised"
    ELSE IF r.status = 200 THEN "returned"
    ELSE "non200"

UploadJson(i) ==
    /\ proc[i].pc = "UploadJson"
    /\ \E raised \in BOOLEAN, r \in Responses :
        LET p0 == Posted(Did(proc[i], "post_json"), "json", raised, r)
        IN  proc' = [proc EXCEPT ![i] =
                IF FirstAttempt(raised, r) = "returned"
                THEN [p0 EXCEPT !.ok = TRUE, !.msg = Success(r), !.pc = "Cleanup"]
                ELSE [p0 EXCEPT !.pc = "UploadForm"]]
    /\ UNCHANGED <<dirs, pdfs, option_file, jmcomic_ok, clock, call>>

\* mutant: the status of the second response is not checked
SecondAttempt_AlwaysOk(r) == [ok |-> TRUE, msg |-> Success(r)]

\* lines 156-165: the result of the second attempt when the request completes
SecondAttempt(r) ==
    IF r.status = 200 THEN [ok |-> TRUE, msg |-> Success(r)]
    ELSE [ok |-> FALSE, msg |-> HttpError(r)]

\* lines 146-167 and execute lines 499-501
UploadForm(i) ==
    /\ proc[i].pc = "UploadForm"
    /\ IF ~PdfExists(proc[i].pdf_path)
       THEN proc' = [proc EXCEPT ![i] = Raise(@, "FileNotFoundError")]
       ELSE \E raised \in BOOLEAN, r \in Responses :
            LET p0 == Posted(Did(proc[i], "post_form"), "form", raised, r)
                res == SecondAttempt(r)
                p1 == [p0 EXCEPT !.ok = res.ok, !.msg = res.msg]
            IN  proc' = [proc EXCEPT ![i] =
                    IF raised THEN Raise(p0, "ClientError")
                    ELSE IF res.ok THEN [p1 EXCEPT !.pc = "Cleanup"]
                    ELSE Report(Send(p1, "upload_failed", <<>>), Some("http_error"))]
    /\ UNCHANGED <<dirs, pdfs, option_file, jmcomic_ok, clock, call>>

----------------------------------------------------------------------------
(* Cleanup: execute, lines 503-508 *)

RemovePdf(files, name) == {f \in files : f.name # name}

Cleanup(i) ==
    /\ proc[i].pc = "Cleanup"
    /\ \E os_error \in BOOLEAN :
        /\ pdfs' = IF os_error THEN pdfs ELSE RemovePdf(pdfs, proc[i].pdf_path)
        /\ proc' = [proc EXCEPT ![i] =
                        [Did(@, "remove") EXCEPT !.pc = "Done", !.ret = Some("done")]]
    /\ UNCHANGED <<dirs, option_file, jmcomic_ok, clock, call>>

----------------------------------------------------------------------------
(* One invocation of the command, run in isolation *)

Step(i) ==
    \/ Invoke(i)
    \/ InspectorPrepare(i)
    \/ InspectorFetch(i)
    \/ Select(i)
    \/ DownloadPrepare(i)
    \/ DownloadResolve(i)
    \/ DownloadFetch(i)
    \/ DownloadLocate(i)
    \/ CollectImages(i)
    \/ AssemblePdf(i)
    \/ Resolve(i)
    \/ UploadJson(i)
    \/ UploadForm(i)
    \/ Cleanup(i)

Next == Step(1)

Spec == Init /\ [][Next]_vars

----------------------------------------------------------------------------
(* Two invocations running at the same time on one event loop.  Each await *)
(* of execute() is a point where the other invocation may run, so the      *)
(* steps of the two interleave freely; between two awaits a step is atomic.*)
(* The inputs and the environment are narrowed to keep the product small:  *)
(* two Works, a private chat, at most two chapters, at most one image per  *)
(* directory, plain-text responses.                                        *)

ConcProcs == {1, 2}

ConcArgs == {Some(<<"7">>), Some(UnsafeAlbumToken)}

Narrow(i) ==
    LET p == proc[i]
    IN  /\ p.matched_args \in ConcArgs
        /\ p.message_info \in {IdleProc.message_info,
                              MessageInfo(None, Some(<<"9">>))}
        /\ p.chapter_count \in {None, Some(1), Some(2)}
        /\ p.total_chapters \in {None, Some(2)}
        /\ \A d \in DirNames : dirs[d].upper = 0 /\ dirs[d].lower <= 1
        /\ \A k \in 1..Len(p.posts) :
                ~p.posts[k].raised /\ p.posts[k].body = "text"

ConcInit ==
    /\ Init
    /\ jmcomic_ok
    /\ \A d \in DirNames : ~dirs[d].present

ConcNext ==
    \E i \in ConcProcs :
        \/ Invoke(i) /\ Narrow(i)'
        \/ InspectorPrepare(i) /\ Narrow(i)'
        \/ InspectorFetch(i) /\ Narrow(i)'
        \/ Select(i) /\ Narrow(i)'
        \/ DownloadPrepare(i) /\ Narrow(i)'
        \/ DownloadResolve(i) /\ Narrow(i)'
        \/ DownloadFetch(i) /\ Narrow(i)'
        \/ DownloadLocate(i) /\ Narrow(i)'
        \/ CollectImages(i) /\ Narrow(i)'
        \/ AssemblePdf(i) /\ Narrow(i)'
        \/ Resolve(i) /\ Narrow(i)'
        \/ UploadJson(i) /\ Narrow(i)'
        \/ UploadForm(i) /\ Narrow(i)'
        \/ Cleanup(i) /\ Narrow(i)'

SpecConc == ConcInit /\ [][ConcNext]_vars

----------------------------------------------------------------------------
(* sanitize_filename called directly, on every string of a small alphabet, *)
(* and called again on its own result                                      *)

NameChars == {"a", "_", " ", "\t", "/", ":", "\n"}

Names == UNION {[1..n -> NameChars] : n \in 0..MaxNameLen}

\* the variables of the command, untouched while a function is called directly
Quiet ==
    /\ proc = [i \in Procs |-> IdleProc]
    /\ dirs = [d \in DirNames |-> NoDir]
    /\ pdfs = {}
    /\ option_file = AbsentFile
    /\ jmcomic_ok = TRUE
    /\ clock = 1

InitSanitize ==
    /\ Quiet
    /\ call \in {[fn |-> "sanitize_filename", name |-> s, result |-> None,
                  again |-> None] : s \in Names}

SanitizeCall ==
    /\ call.result = None
    /\ call' = [call EXCEPT !.result = Some(sanitize_filename(call.name))]
    /\ UNCHANGED <<proc, dirs, pdfs, option_file, jmcomic_ok, clock>>

SanitizeAgain ==
    /\ call.result # None
    /\ call.again = None
    /\ call' = [call EXCEPT !.again = Some(sanitize_filename(call.result[1]))]
    /\ UNCHANGED <<proc, dirs, pdfs, option_file, jmcomic_ok, clock>>

NextSanitize == SanitizeCall \/ SanitizeAgain

SpecSanitize == InitSanitize /\ [][NextSanitize]_vars

----------------------------------------------------------------------------
(* async_download_album called directly: every combination of chapter_index *)
(* and only_first_chapter, on a download root that holds up to two          *)
(* directories left by earlier downloads                                    *)

ChapterIndexes == {None} \cup {Some(k) : k \in (0 - 1)..MaxChapterArg}

\* directories left by earlier downloads of Work w, last modified at time m:
\* without image files, with a lower-case image, with an upper-case image
LeftDirs(ws, ms) ==
    {[present |-> TRUE, mtime |-> m, lower |-> f[1], upper |-> f[2],
      work |-> w, by |-> {}] :
        w \in ws, m \in ms, f \in {<<0, 0>>, <<1, 0>>, <<0, 1>>}}

InitDownloader ==
    /\ \E ci \in ChapterIndexes, of \in BOOLEAN :
            proc = [i \in Procs |->
                        IF i = 1
                        THEN [IdleProc EXCEPT !.pc = "Download",
                                              !.album_id = <<"7">>,
                                              !.use_chapter_index = ci,
                                              !.only_first_chapter = of]
                        ELSE IdleProc]
    /\ \E a \in {NoDir} \cup LeftDirs({<<"3">>}, {1}),
          b \in {NoDir} \cup LeftDirs({<<"3">>, <<"7">>}, {1, 2}) :
            dirs = [d \in DirNames |-> IF d = "dirA" THEN a ELSE b]
    /\ pdfs = {}
    /\ option_file = AbsentFile
    /\ jmcomic_ok \in BOOLEAN
    /\ clock = 2
    /\ call = NoCall

NextDownloader ==
    \/ DownloadPrepare(1)
    \/ DownloadResolve(1)
    \/ DownloadFetch(1)
    \/ DownloadLocate(1)

SpecDownloader == InitDownloader /\ [][NextDownloader]_vars

----------------------------------------------------------------------------
(* CollectImages and images_to_pdf_sync on the content of one directory:   *)
(* paths are strings relative to the album directory, compared as Python   *)
(* compares str, by code point                                             *)

Uppercase == <<"A", "B", "C", "D", "E", "F", "G", "H", "I", "J", "K", "L", "M", "N", "O", "P", "Q", "R", "S", "T", "U", "V", "W", "X", "Y", "Z">>

Lowercase == <<"a", "b", "c", "d", "e", "f", "g", "h", "i", "j", "k", "l", "m", "n", "o", "p", "q", "r", "s", "t", "u", "v", "w", "x", "y", "z">>

\* the characters of the paths, in code-point order
CharOrder == <<".", "/">> \o DigitChars \o Uppercase \o <<"_">> \o Lowercase

Ord(c) == CHOOSE k \in 1..Len(CharOrder) : CharOrder[k] = c

\* s < t for two str
RECURSIVE StrLess(_, _)
StrLess(s, t) ==
    IF t = <<>> THEN FALSE
    ELSE IF s = <<>> THEN TRUE
    ELSE IF s[1] = t[1] THEN StrLess(Tail(s), Tail(t))
    ELSE Ord(s[1]) < Ord(t[1])

\* str.lower
LowerChar(c) ==
    IF \E k \in 1..Len(Uppercase) : Uppercase[k] = c
    THEN Lowercase[CHOOSE k \in 1..Len(Uppercase) : Uppercase[k] = c]
    ELSE c

lower(s) == [k \in 1..Len(s) |-> LowerChar(s[k])]

\* str.rfind, 1-based; 0 when c does not occur
RECURSIVE rfind(_, _)
rfind(s, c) ==
    IF s = <<>> THEN 0
    ELSE IF s[Len(s)] = c THEN Len(s)
    ELSE rfind(SubSeq(s, 1, Len(s) - 1), c)

\* PurePath.name and PurePath.suffix: the last component, and its part from
\* the last dot on unless that dot starts or ends the name
PathName(path) == SubSeq(path, rfind(path, "/") + 1, Len(path))

suffix(path) ==
    LET name == PathName(path)
        i == rfind(name, ".")
    IN  IF 1 < i /\ i < Len(name) THEN SubSeq(name, i, Len(name)) ELSE <<>>

supported_extensions ==
    {<<".", "j", "p", "g">>, <<".", "j", "p", "e", "g">>, <<".", "p", "n", "g">>, <<".", "w", "e", "b", "p">>}

\* mutant: the pages are ordered by file name instead of by path
SortKey_Name(path) == PathName(path)

\* key=lambda p: p.as_posix()
SortKey(path) == path

\* sorted(paths, key=...): repeatedly the entry with the least key
RECURSIVE sorted(_)
sorted(paths) ==
    IF paths = {} THEN <<>>
    ELSE LET least == CHOOSE x \in paths :
                        \A y \in paths : x = y \/ ~StrLess(SortKey(y), SortKey(x))
         IN  <<least>> \o sorted(paths \ {least})

\* lines 442-445: every entry rglob("*") yields whose suffix is supported
img_paths(listing) ==
    sorted({e.path : e \in {x \in listing : lower(suffix(x.path)) \in supported_extensions}})

\* what rglob("*") can find under the album directory: image files with
\* lower- and upper-case extensions, at the top and in a subdirectory, other
\* files, and a directory whose name ends like an image
Entry(path, is_file) == [path |-> path, is_file |-> is_file]

Entries ==
    {Entry(<<"1", ".", "j", "p", "g">>, TRUE),
     Entry(<<"1", "0", ".", "j", "p", "g">>, TRUE),
     Entry(<<"2", ".", "j", "p", "g">>, TRUE),
     Entry(<<"B", ".", "P", "N", "G">>, TRUE),
     Entry(<<"a", ".", "w", "e", "b", "p">>, TRUE),
     Entry(<<"a", "/", "1", ".", "j", "p", "e", "g">>, TRUE),
     Entry(<<"a", ".", "t", "x", "t">>, TRUE),
     Entry(<<"d", ".", "p", "n", "g">>, FALSE)}

Listings == {l \in SUBSET Entries : Cardinality(l) <= MaxListing}

InitPages ==
    /\ Quiet
    /\ call \in {[fn |-> "images_to_pdf_sync", listing |-> l, img_paths |-> None,
                  pdf |-> None, sent |-> "nothing"] : l \in Listings}

\* execute, lines 441-454
CollectCall ==
    /\ call.fn = "images_to_pdf_sync"
    /\ call.img_paths = None
    /\ LET found == img_paths(call.listing)
       IN  call' = [call EXCEPT !.img_paths = Some(found),
                                !.sent = IF found = <<>> THEN "no_images"
                                         ELSE IF OverPageCap(Len(found))
                                         THEN "too_many_pages"
                                         ELSE "nothing"]
    /\ UNCHANGED <<proc, dirs, pdfs, option_file, jmcomic_ok, clock>>

\* images_to_pdf_sync, lines 69-83: Image.open of every path in order (it
\* raises on a directory), then the first image is saved with the others
\* appended
AssembleCall ==
    /\ call.fn = "images_to_pdf_sync"
    /\ call.img_paths # None
    /\ call.sent = "nothing"
    /\ call.pdf = None
    /\ LET paths == call.img_paths[1]
           opens == \A k \in 1..Len(paths) : Entry(paths[k], TRUE) \in call.listing
       IN  call' = IF opens
                   THEN [call EXCEPT !.pdf = Some([base |-> paths[1],
                                                   appended |-> Tail(paths)])]
                   ELSE [call EXCEPT !.sent = "pdf_failed"]
    /\ UNCHANGED <<proc, dirs, pdfs, option_file, jmcomic_ok, clock>>

NextPages == CollectCall \/ AssembleCall

SpecPages == InitPages /\ [][NextPages]_vars

----------------------------------------------------------------------------
(* Vocabulary of the properties *)

InTrace(p, op) == \E k \in 1..Len(p.trace) : p.trace[k] = op

NoticeSent(p, text) == \E k \in 1..Len(p.sent) : p.sent[k].text = text

LastSent(p) == IF p.sent = <<>> THEN "nothing" ELSE p.sent[Len(p.sent)].text

Downloaded(p) == InTrace(p, "download_photo") \/ InTrace(p, "download_album")

\* SelectStrategy has run in this invocation
Selected(p) ==
    /\ p.chapter_count # None
    /\ p.pc \notin {"Idle", "CheckChapters", "InspectorFetch", "SelectStrategy"}

\* the directive handed to the Downloader
WholeWork(p) == ~p.only_first_chapter /\ p.use_chapter_index = None

FirstChapterOnly(p) == p.only_first_chapter /\ p.use_chapter_index = None

SpecificChapter(p, k) == ~p.only_first_chapter /\ p.use_chapter_index = Some(k)

----------------------------------------------------------------------------
\* C1: once SelectStrategy has run with a chapter count >= 1, the directive
\* follows the decision table: count <= 1 gives a whole-work download, with the
\* "argument ignored" notice sent exactly when an argument was supplied;
\* count > 1 without argument gives first-chapter-only; count > 1 with an
\* argument <= count gives exactly that chapter; count > 1 with an argument
\* > count gives first-chapter-only plus the out-of-range notice.  A whole-work
\* directive never downloads a single chapter, a first-chapter-only directive
\* never downloads the whole work and resolves to position 0.
C1_DecisionTable ==
    \A i \in Procs :
        LET p == proc[i]
            cc == p.chapter_count[1]
            arg == p.chapter_num
        IN  (Selected(p) /\ cc >= 1) =>
            /\ cc <= 1 =>
                /\ WholeWork(p)
                /\ NoticeSent(p, "single_ignore_arg") <=> (arg # None)
                /\ ~InTrace(p, "download_photo")
            /\ (cc > 1 /\ arg = None) =>
                /\ FirstChapterOnly(p)
                /\ ~NoticeSent(p, "out_of_range")
                /\ ~InTrace(p, "download_album")
                /\ InTrace(p, "download_photo") => p.download_chapter_index = Some(0)
            /\ (cc > 1 /\ arg # None /\ arg[1] <= cc) =>
                /\ SpecificChapter(p, arg[1])
                /\ ~NoticeSent(p, "out_of_range")
            /\ (cc > 1 /\ arg # None /\ arg[1] > cc) =>
                /\ FirstChapterOnly(p)
                /\ NoticeSent(p, "out_of_range")
                /\ ~InTrace(p, "download_album")
                /\ InTrace(p, "download_photo") => p.download_chapter_index = Some(0)

\* C1 witness: an out-of-range argument fell back to the first chapter, which
\* was downloaded
C1_Witness ==
    \E i \in Procs :
        /\ Selected(proc[i])
        /\ proc[i].chapter_count[1] > 1
        /\ proc[i].chapter_num # None
        /\ proc[i].chapter_num[1] > proc[i].chapter_count[1]
        /\ NoticeSent(proc[i], "out_of_range")
        /\ InTrace(proc[i], "download_photo")

----------------------------------------------------------------------------
\* C2: every invocation that has ended, ended in Done or in a reported failure
\* after sending a text message; no exception left execute.
C2_EveryFailureReported ==
    \A i \in Procs :
        proc[i].pc \in Terminal =>
            /\ proc[i].pc \in {"Done", "Reported"}
            /\ proc[i].sent # <<>>

----------------------------------------------------------------------------
\* C3 (as stated): the multipart POST is issued only when the structured POST
\* raised an exception.
C3_FallbackOnlyOnException ==
    \A i \in Procs :
        Len(proc[i].posts) >= 2 => proc[i].posts[1].raised

\* C3 (amended): the multipart POST is issued exactly when the structured POST
\* did not complete with status 200, that is when it raised or when it
\* completed with another status; after a 200 no second POST is issued.
C3_FallbackUnlessOk ==
    \A i \in Procs :
        LET p == proc[i]
        IN  /\ Len(p.posts) <= 2
            /\ Len(p.posts) >= 1 => p.posts[1].kind = "json"
            /\ Len(p.posts) = 2 => p.posts[2].kind = "form"
            /\ (Len(p.posts) >= 1 /\ p.pc # "UploadForm") =>
                \/ Len(p.posts) = 2 <=> (p.posts[1].raised \/ p.posts[1].status # 200)
                \/ p.pc = "Raised" /\ p.ret = Some("FileNotFoundError")

\* C3 witness: the second POST was issued after a non-200 first response
C3_Witness ==
    \E i \in Procs :
        /\ Len(proc[i].posts) = 2
        /\ ~proc[i].posts[1].raised
        /\ proc[i].posts[1].status = 500

----------------------------------------------------------------------------
\* C4: when the structured POST completed with a non-200 status and the
\* multipart POST completed with status 200, the upload returns success with
\* the multipart body, re-serialized when it is JSON and verbatim otherwise.
C4_SuccessAfterNon200 ==
    \A i \in Procs :
        LET p == proc[i]
        IN  (/\ Len(p.posts) = 2
             /\ ~p.posts[1].raised /\ p.posts[1].status # 200
             /\ ~p.posts[2].raised /\ p.posts[2].status = 200) =>
            /\ p.ok
            /\ p.msg.kind = "body"
            /\ p.msg.body = IF p.posts[2].body = "json_spaced" THEN "json_canonical"
                            ELSE p.posts[2].body
            /\ p.pc \in {"Cleanup", "Done"}

\* C4 witness: non-200 then 200 with a JSON body, returned re-serialized
C4_Witness ==
    \E i \in Procs :
        /\ Len(proc[i].posts) = 2
        /\ proc[i].posts[1].status = 500
        /\ proc[i].posts[2].status = 200
        /\ proc[i].posts[2].body = "json_spaced"
        /\ proc[i].ok
        /\ proc[i].msg.body = "json_canonical"

----------------------------------------------------------------------------
\* C5: when the structured POST raised and the multipart POST completed with
\* a non-200 status, the upload returns failure with the multipart status and
\* body in its message, and execute reports "upload failed" and returns.
C5_FailureAfterException ==
    \A i \in Procs :
        LET p == proc[i]
        IN  (/\ Len(p.posts) = 2
             /\ p.posts[1].raised
             /\ ~p.posts[2].raised /\ p.posts[2].status # 200) =>
            /\ ~p.ok
            /\ p.msg = [kind |-> "http_error", status |-> p.posts[2].status,
                        body |-> p.posts[2].body]
            /\ p.pc = "Reported"
            /\ LastSent(p) = "upload_failed"

\* C5 witness: exception, then HTTP 500 with a JSON body
C5_Witness ==
    \E i \in Procs :
        /\ Len(proc[i].posts) = 2
        /\ proc[i].posts[1].raised
        /\ proc[i].posts[2].status = 500
        /\ proc[i].posts[2].body = "json_spaced"
        /\ proc[i].pc = "Reported"

----------------------------------------------------------------------------
\* C6: after the page-cap check, an invocation that collected more than
\* max_pdf_pages images has reported and ended with no PDF written and no
\* upload request; one that collected at most max_pdf_pages images (equality
\* included) went on to assemble the PDF.
C6_PageCap ==
    \A i \in Procs :
        LET p == proc[i]
        IN  (InTrace(p, "collect") /\ p.n_images > 0 /\ p.pc # "AssemblePdf") =>
            IF p.n_images > max_pdf_pages
            THEN /\ p.pc = "Reported"
                 /\ LastSent(p) = "too_many_pages"
                 /\ ~InTrace(p, "pdf_write")
                 /\ p.posts = <<>>
                 /\ ~\E f \in pdfs : f.by = i
            ELSE /\ ~NoticeSent(p, "too_many_pages")
                 /\ \/ InTrace(p, "pdf_write")
                    \/ p.pc = "Reported" /\ LastSent(p) = "pdf_failed"
                    \/ p.pc = "Raised" /\ p.ret = Some("OSError")

\* C6 witness: one image over the cap, reported
C6_Witness ==
    \E i \in Procs :
        /\ proc[i].n_images = max_pdf_pages + 1
        /\ proc[i].pc = "Reported"
        /\ LastSent(proc[i]) = "too_many_pages"

\* the boundary: exactly max_pdf_pages images are assembled
C6_AtCapAssembled ==
    \E i \in Procs :
        /\ proc[i].n_images = max_pdf_pages
        /\ InTrace(proc[i], "pdf_write")

----------------------------------------------------------------------------
\* C7: every invocation that issued an upload request and returned has
\* attempted the deletion of the temporary PDF, whether the upload succeeded
\* or failed.
C7_PdfDeletedAfterUpload ==
    \A i \in Procs :
        (proc[i].pc \in {"Done", "Reported"} /\ proc[i].posts # <<>>) =>
            InTrace(proc[i], "remove")

----------------------------------------------------------------------------
\* C8: the temporary PDF is removed only after a successful upload: a removal
\* follows a POST that completed with status 200; an invocation that ended in
\* a reported failure after writing its PDF leaves the file in place; and the
\* steps that report "no recipient" or "upload failed" change no file.
C8_PdfKept ==
    \A i \in Procs :
        LET p == proc[i]
        IN  /\ InTrace(p, "remove") =>
                /\ p.posts # <<>>
                /\ ~p.posts[Len(p.posts)].raised
                /\ p.posts[Len(p.posts)].status = 200
            /\ (p.pc = "Reported" /\ InTrace(p, "pdf_write")) =>
                /\ ~InTrace(p, "remove")
                /\ \E f \in pdfs : f.name = p.pdf_path /\ f.pages = p.n_images

C8_FailureKeepsFiles ==
    \A i \in Procs :
        (/\ proc[i].pc \in {"ResolveTarget", "UploadJson", "UploadForm"}
         /\ proc'[i].pc = "Reported") =>
            UNCHANGED <<dirs, pdfs, option_file>>

C8_RemovedOnlyAfterSuccess == []C8_PdfKept /\ [][C8_FailureKeepsFiles]_vars

\* C8 witness: the upload failed and the PDF is still there
C8_Witness ==
    \E i \in Procs :
        /\ proc[i].pc = "Reported"
        /\ LastSent(proc[i]) = "upload_failed"
        /\ \E f \in pdfs : f.name = proc[i].pdf_path

----------------------------------------------------------------------------
\* C9: the stages run in the order Inspector, Downloader, image collection,
\* Assembler, target resolution, Upload, Cleanup, each at most once; a stage
\* runs only after the stages before it succeeded; after a failure message no
\* later stage runs, and an invocation that has ended does nothing more.
StageRank(op) ==
    CASE op = "inspect" -> 1
      [] op = "fetch_list" -> 2
      [] op = "download_photo" -> 3
      [] op = "download_album" -> 3
      [] op = "collect" -> 4
      [] op = "pdf_write" -> 5
      [] op = "resolve_target" -> 6
      [] op = "post_json" -> 7
      [] op = "post_form" -> 8
      [] op = "remove" -> 9

\* the last stage that may have run when this failure message is sent
FailedStage(text) ==
    CASE text = "usage" -> 0
      [] text = "chapter_must_be_positive" -> 0
      [] text = "check_failed" -> 1
      [] text = "download_failed" -> 3
      [] text = "no_images" -> 4
      [] text = "too_many_pages" -> 4
      [] text = "pdf_failed" -> 4
      [] text = "no_target" -> 6
      [] text = "upload_failed" -> 8
      [] OTHER -> 9

C9_Ordered ==
    \A i \in Procs :
        LET p == proc[i]
        IN  /\ \A j, k \in 1..Len(p.trace) :
                j < k => StageRank(p.trace[j]) < StageRank(p.trace[k])
            /\ Downloaded(p) => (InTrace(p, "inspect") /\ p.chapter_count # None)
            /\ InTrace(p, "collect") => (Downloaded(p) /\ p.album_dir # None)
            /\ InTrace(p, "pdf_write") => (InTrace(p, "collect") /\ p.n_images > 0)
            /\ InTrace(p, "post_json") =>
                (InTrace(p, "pdf_write") /\ InTrace(p, "resolve_target"))
            /\ InTrace(p, "post_form") => InTrace(p, "post_json")
            /\ InTrace(p, "remove") => InTrace(p, "post_json")
            /\ \A k \in 1..Len(p.sent), j \in 1..Len(p.trace) :
                StageRank(p.trace[j]) <= FailedStage(p.sent[k].text)

C9_EndedStaysEnded ==
    \A i \in Procs : proc[i].pc \in Terminal => proc'[i] = proc[i]

C9_StageOrder == []C9_Ordered /\ [][C9_EndedStaysEnded]_vars

\* C9 witness: a full run, every stage once, in order
C9_Witness ==
    \E i \in Procs :
        /\ proc[i].pc = "Done"
        /\ proc[i].trace = <<"inspect", "fetch_list", "download_photo", "collect",
                             "pdf_write", "resolve_target", "post_json",
                             "post_form", "remove">>

----------------------------------------------------------------------------
\* C10: an invocation whose argument string is empty (after trimming), or
\* whose second token is not a positive integer, sends exactly one message
\* (usage, respectively the validation message) and ends having called
\* nothing and written nothing.
SecondTokenBad(s) ==
    /\ Len(split(s)) > 1
    /\ ~(py_int(split(s)[2]).ok /\ py_int(split(s)[2]).val > 0)

ArgsText(matched) == IF matched = None THEN <<>> ELSE matched[1]

C10_BadArgsDoNothing ==
    \A i \in Procs :
        LET p == proc[i]
            s == ArgsText(p.matched_args)
            empty == \A k \in 1..Len(s) : IsSpace(s[k])
        IN  (p.pc # "Idle" /\ (empty \/ SecondTokenBad(s))) =>
            /\ p.pc = "Reported"
            /\ Len(p.sent) = 1
            /\ p.sent[1].text = IF empty THEN "usage" ELSE "chapter_must_be_positive"
            /\ p.trace = <<>>
            /\ p.posts = <<>>
            /\ pdfs = {}
            /\ option_file = AbsentFile
            /\ \A d \in DirNames : dirs[d] \in {NoDir, OldDir}

\* C10 witness: chapter argument 0 was rejected
C10_Witness ==
    \E i \in Procs :
        /\ proc[i].pc = "Reported"
        /\ proc[i].matched_args = Some(<<"7", " ", "0">>)
        /\ LastSent(proc[i]) = "chapter_must_be_positive"

----------------------------------------------------------------------------
\* the two decimal digits of k, for 0 <= k <= 99
TwoDigits(k) == <<DigitChars[(k \div 10) + 1], DigitChars[(k % 10) + 1]>>

\* the artifact name the selection calls for
ArtifactName(p) ==
    LET base == sanitize_filename(p.album_id)
    IN  IF FirstChapterOnly(p) THEN base \o <<"_", "0", "1", ".", "p", "d", "f">>
        ELSE IF WholeWork(p) THEN base \o <<".", "p", "d", "f">>
        ELSE base \o <<"_">> \o TwoDigits(p.use_chapter_index[1])
                  \o <<".", "p", "d", "f">>

----------------------------------------------------------------------------
\* the id is present and int() accepts it
Numeric(id) == Truthy(id) /\ py_int(id[1]).ok

\* upload_pdf_via_napcat has been called in this invocation
UploadCalled(p) == p.pc \in {"UploadJson", "UploadForm", "Cleanup", "Done"} \/ p.posts # <<>>

\* C12: after ResolveTarget, a message with a group id has the Upload Client
\* called with scope group and the numeric group id; scope private with the
\* numeric user id is used only when there is no group id but a user id; and
\* when neither id is present or neither yields a number, no upload is
\* attempted and the command reports that the recipient cannot be identified.
C12_TargetResolution ==
    \A i \in Procs :
        LET p == proc[i]
            g == p.message_info.group_id
            u == p.message_info.user_id
            args == UploadArgs(p)
        IN  InTrace(p, "resolve_target") =>
            /\ Numeric(g) =>
                /\ UploadCalled(p)
                /\ args.scope = "group"
                /\ args.target_id = Some(py_int(g[1]).val)
            /\ (UploadCalled(p) /\ args.scope = "private") =>
                /\ ~Truthy(g)
                /\ Numeric(u)
                /\ args.target_id = Some(py_int(u[1]).val)
            /\ ((~Truthy(g) /\ ~Truthy(u)) \/ (~Numeric(g) /\ ~Numeric(u))) =>
                /\ ~UploadCalled(p)
                /\ p.pc = "Reported"
                /\ LastSent(p) = "no_target"

----------------------------------------------------------------------------
\* the directory returned to an invocation holds the invocation's own Work
C13_NeverAnotherWork ==
    \A i \in Procs :
        \A d \in DirNames :
            proc[i].album_dir = Some(d) => dirs[d].work = proc[i].album_id

\* C13: the directory the Downloader returns to an invocation was populated
\* by that invocation's own download of its own Work, never by an earlier or
\* concurrent invocation for a different Work.
C13_OwnDirectory ==
    /\ C13_NeverAnotherWork
    /\ \A i \in Procs :
        \A d \in DirNames :
            proc[i].album_dir = Some(d) => i \in dirs[d].by

----------------------------------------------------------------------------
\* the invocation is between its first await and its return
InFlight(p) == p.pc \notin Terminal \cup {"Idle"}

\* the option this invocation holds was built from a file that is not what
\* the invocation wrote: another writer's file, or another text
ForeignOption(i) ==
    /\ proc[i].option # None
    /\ \/ proc[i].option[1].writer # i
       \/ proc[i].option[1].text # <<"dir_rule", "base_dir", OutputDir>>

----------------------------------------------------------------------------
\* C15: for every input string, the result of sanitize_filename holds none of
\* the characters \ / : * ? " < > | CR LF, neither starts nor ends with
\* whitespace, and sanitizing it again returns it unchanged.
C15_SanitizeFixedPoint ==
    call.result # None =>
        LET r == call.result[1]
        IN  /\ \A k \in 1..Len(r) :
                    r[k] \notin {"\\", "/", ":", "*", "?", "\"", "<", ">", "|", "\r", "\n"}
            /\ r # <<>> =>
                    /\ r[1] \notin {" ", "\t", "\n", "\r"}
                    /\ r[Len(r)] \notin {" ", "\t", "\n", "\r"}
            /\ call.again # None => call.again[1] = r

\* an input with leading whitespace and an illegal character, sanitized twice
C15_Witness ==
    /\ call.fn = "sanitize_filename"
    /\ call.name = <<" ", "/", "a">>
    /\ call.result = Some(<<"_", "a">>)
    /\ call.again = Some(<<"_", "a">>)

----------------------------------------------------------------------------
\* d is an immediate subdirectory holding a file that matches one of the
\* patterns *.jpg, *.jpeg, *.png, *.webp
ImageDir(d) == dirs[d].present /\ dirs[d].lower > 0

\* the directory discovery has run in this call of the Downloader
Located(p) ==
    /\ Downloaded(p)
    /\ p.pc \in {"CollectImages", "Reported"}
    /\ p.ret # Some("download_raised")

\* C16: a directory the Downloader returns is an immediate subdirectory of
\* the output root that holds an image file, and no other subdirectory that
\* holds an image file was modified strictly later; the Downloader fails,
\* returning no directory, exactly when the root has no subdirectory or no
\* subdirectory holds an image file.
C16_Discovery ==
    LET p == proc[1]
    IN  /\ \A d \in DirNames :
            p.album_dir = Some(d) =>
                /\ Located(p)
                /\ ImageDir(d)
                /\ \A e \in DirNames : ImageDir(e) => dirs[e].mtime <= dirs[d].mtime
        /\ Located(p) =>
            /\ (p.album_dir = None) <=> (\A d \in DirNames : ~ImageDir(d))
            /\ (p.album_dir = None) <=>
                    /\ p.pc = "Reported"
                    /\ p.ret \in {Some("no_download_dir"), Some("no_image_dir")}
            /\ (p.ret = Some("no_download_dir")) <=>
                    (\A d \in DirNames : ~dirs[d].present)

\* two directories hold images and the one modified later was returned
C16_Witness ==
    /\ proc[1].album_dir = Some("dirB")
    /\ ImageDir("dirA")
    /\ dirs["dirA"].mtime < dirs["dirB"].mtime

\* a root whose directories hold no matching file made the call fail
C16_WitnessFailure ==
    /\ proc[1].ret = Some("no_image_dir")
    /\ \E d \in DirNames : dirs[d].present

----------------------------------------------------------------------------
\* C17: with total the length of the chapter list the Downloader fetched: an
\* empty list makes the call fail without any download; a chapter index
\* outside 1..total downloads the first chapter alone when only_first_chapter
\* is set and the whole work otherwise; an index k within 1..total downloads
\* the chapter at 0-based position k-1 alone.
C17_ChapterPolicy ==
    LET p == proc[1]
        ci == p.use_chapter_index
        total == p.total_chapters[1]
        single(k) == /\ p.download_chapter_index = Some(k - 1)
                     /\ p.photo_id_to_download = Some(PhotoIdAt(k))
                     /\ ~InTrace(p, "download_album")
                     /\ p.pc # "DownloadFetch" => InTrace(p, "download_photo")
        whole == /\ p.download_chapter_index = None
                 /\ p.photo_id_to_download = None
                 /\ ~InTrace(p, "download_photo")
                 /\ p.pc # "DownloadFetch" => InTrace(p, "download_album")
    IN  (InTrace(p, "fetch_list") /\ p.total_chapters # None) =>
            /\ total = 0 =>
                /\ p.pc = "Reported"
                /\ p.ret = Some("no_chapters")
                /\ ~Downloaded(p)
            /\ (total > 0 /\ p.ret # Some("no_photo_id")) =>
                /\ (ci # None /\ (ci[1] < 1 \/ ci[1] > total)) =>
                        IF p.only_first_chapter THEN single(1) ELSE whole
                /\ (ci # None /\ ci[1] >= 1 /\ ci[1] <= total) => single(ci[1])

\* index 4 of a list of 2 with only_first_chapter set: chapter 1 downloaded
C17_Witness ==
    /\ proc[1].use_chapter_index = Some(4)
    /\ proc[1].only_first_chapter
    /\ proc[1].total_chapters = Some(2)
    /\ InTrace(proc[1], "download_photo")
    /\ proc[1].photo_id_to_download = Some(PhotoIdAt(1))

----------------------------------------------------------------------------
\* C18: whenever a specific chapter k, at most the Inspector's count, was
\* selected and the PDF was written under the _kk name, the Downloader had
\* downloaded the k-th chapter alone and never the whole work, whatever the
\* length of the chapter list it fetched itself.
C18_SelectedChapterDownloaded ==
    \A i \in Procs :
        LET p == proc[i]
            k == p.use_chapter_index[1]
        IN  ( /\ Selected(p)
              /\ p.use_chapter_index # None
              /\ k <= p.chapter_count[1]
              /\ InTrace(p, "pdf_write")
              /\ p.safe_name = sanitize_filename(p.album_id) \o <<"_">> \o TwoDigits(k) )
            =>
            /\ InTrace(p, "download_photo")
            /\ ~InTrace(p, "download_album")
            /\ p.photo_id_to_download = Some(PhotoIdAt(k))

----------------------------------------------------------------------------
\* C19: from the end of AssemblePdf until the Upload step completes, the file
\* at the invocation's PDF path exists and is the file this invocation
\* assembled, with its pages; no other invocation replaces or deletes it.
C19_PdfIsolated ==
    \A i \in Procs :
        LET p == proc[i]
        IN  p.pc \in {"ResolveTarget", "UploadJson", "UploadForm"} =>
                \E f \in pdfs :
                    /\ f.name = p.pdf_path
                    /\ f.by = i
                    /\ f.pages = p.n_images

\* the file is gone while its invocation is about to read it for the upload
C19_DeletedBeforeUpload ==
    \A i \in Procs :
        proc[i].pc = "UploadForm" => PdfExists(proc[i].pdf_path)

----------------------------------------------------------------------------
\* the path ends, in any letter case, with a dot and ext after a non-empty stem
EndsWithExtension(path, ext) ==
    LET n == Len(ext) + 1
    IN  /\ Len(PathName(path)) > n
        /\ lower(SubSeq(path, Len(path) - n + 1, Len(path))) = <<".">> \o ext

\* the image files of the listing
ImageFiles(listing) ==
    {e.path : e \in {x \in listing :
        /\ x.is_file
        /\ \E ext \in {<<"j", "p", "g">>, <<"j", "p", "e", "g">>, <<"p", "n", "g">>, <<"w", "e", "b", "p">>} : EndsWithExtension(x.path, ext)}}

\* C20: a PDF that was written has exactly one page for each image file under
\* the directory (extension jpg, jpeg, png or webp in any letter case), the
\* pages are in ascending lexicographic order of the files' paths, and the
\* base page is the first file in that order.
C20_PageOrder ==
    (call.fn = "images_to_pdf_sync" /\ call.pdf # None) =>
        LET pages == <<call.pdf[1].base>> \o call.pdf[1].appended
            files == ImageFiles(call.listing)
        IN  /\ Len(pages) = Cardinality(files)
            /\ {pages[k] : k \in 1..Len(pages)} = files
            /\ \A k \in 1..(Len(pages) - 1) : StrLess(pages[k], pages[k + 1])
            /\ \A f \in files : f = call.pdf[1].base \/ StrLess(call.pdf[1].base, f)

\* an upper-case extension and a file in a subdirectory: B.PNG is the base
\* page and a/1.jpeg follows
C20_Witness ==
    /\ call.fn = "images_to_pdf_sync"
    /\ call.pdf = Some([base |-> <<"B", ".", "P", "N", "G">>, appended |-> <<<<"a", "/", "1", ".", "j", "p", "e", "g">>>>])
    /\ Cardinality(call.listing) = 3

====
